---- MODULE Spec2Model ----
(***************************************************************************)
(* Model of the batch compression engine of my-tinypng (lib/compress.js):  *)
(* compressOnce / downloadCompressed (one upload + download attempt),      *)
(* compressImage (retry loop with linear backoff) and compressBatch        *)
(* (bounded-concurrency scheduler and summary).                            *)
(*                                                                         *)
(* JavaScript runs every callback to completion, microtasks included, so   *)
(* one action of this model is one event-loop task: the arrival of a       *)
(* response, a network error or a timer, followed by everything the        *)
(* promise chain does before control returns to the event loop.            *)
(***************************************************************************)
EXTENDS Integers, Sequences, FiniteSets, TLC

\* ------------------------------------------------------------------ bounds
MaxFiles == 2
MaxK == 2
MaxRetries == 2
MaxBatchRetries == 1

\* ------------------------------------------------------- program constants
DefaultConcurrency == 5
DefaultRetries == 3
\* (variant: unsupported media type is retried)
NonRetryableAuthOnly == {401}
NON_RETRYABLE_STATUS == {401, 415}

\* ------------------------------------------------------------ value model
\* `undefined` for an omitted numeric argument.
Undefined == -1

\* An optional value (null / not yet assigned) is the empty sequence.
None == <<>>
Some(x) == <<x>>
IsSome(o) == o # <<>>
Val(o) == o[1]

AllFiles == <<"a.png", "b.jpg", "c.webp", "d.jpeg", "e.png">>
Paths == {AllFiles[n] : n \in 1..MaxFiles}

OrigSize(p) == CASE p = "a.png" -> 1000
                 [] p = "b.jpg" -> 2000
                 [] OTHER -> 3000

\* File content: what kind of bytes they are and how many.
OrigContent(p) == [kind |-> "orig", of |-> p, size |-> OrigSize(p)]

\* Bytes the service hands back for an upload of `size` bytes of file p.
Shrunk(p, size) == [kind |-> "tiny", of |-> p, size |-> size \div 2]

\* What a failed writeFileSync can leave behind: nothing touched, or a
\* truncated file.
Truncated(p) == [kind |-> "partial", of |-> p, size |-> 0]

\* Body of a download response that is an error document, not an image.
ErrorBody(p) == [kind |-> "error", of |-> p, size |-> 64]

\* Download response statuses the model distinguishes.
DownloadStatuses == {200, 500}
BatchDownloadStatuses == {200}

\* Body of the download response with status dstatus, for an upload of
\* `size` bytes of file p.
DownloadBody(p, size, dstatus) ==
  IF dstatus = 200 THEN Shrunk(p, size) ELSE ErrorBody(p)

\* Upload response statuses the model distinguishes.
Statuses == {201, 401, 415, 500}
BatchStatuses == {201, 401, 500}

\* Response bodies of a rejected upload: a JSON error document or not.
Bodies == {"json", "text"}

StatusText(s) == CASE s = 201 -> "HTTP 201"
                   [] s = 401 -> "HTTP 401"
                   [] s = 415 -> "HTTP 415"
                   [] OTHER -> "HTTP 500"

VARIABLES
  mode,            \* "idle" | "batch" | "image": which entry point was called
  files,           \* compressBatch: files
  maxConcurrency,  \* compressBatch: maxConcurrency after defaulting
  retries,         \* compressBatch: retries after defaulting / compressImage: argument
  index,           \* compressBatch: index
  running,         \* compressBatch: running
  progressIndex,   \* compressBatch: progressIndex
  results,         \* compressBatch: results
  resolveCalls,    \* number of calls of the batch promise's resolve
  summary,         \* value the batch promise resolved with (None while pending)
  inv,             \* the compressImage invocations, by 1-based position in files
  fs,              \* file system: path -> content
  admissions,      \* log of the compressImage calls of next(), in call order
  collected,       \* the images a command found, before dedupe (<<>> otherwise)
  printed,         \* arguments of the printSummary call of the command (None before)
  exitCode,        \* exit status of the command's process (Undefined while it runs)
  envKey,          \* getConfig: process.env.TINYPNG_API_KEY (None when unset)
  projectRc,       \* getConfig: what readProjectConfig returns (None for null)
  pkgConfig,       \* getConfig: what readPackageJsonConfig returns
  globalRc,        \* getConfig: what readGlobalConfig returns
  config,          \* result of getConfig: None before the call, else the
                   \* object returned or the error thrown
  unhandled,       \* runtime's policy for unhandled rejections, fixed at the first one
  crashed          \* the process died of an uncaught exception / unhandled rejection

vars == <<mode, files, maxConcurrency, retries, index, running, progressIndex,
          results, resolveCalls, summary, inv, fs, admissions, collected, printed, exitCode,
          envKey, projectRc, pkgConfig, globalRc, config, unhandled, crashed>>

configVars == <<envKey, projectRc, pkgConfig, globalRc, config>>
engineVars == <<mode, files, maxConcurrency, retries, index, running, progressIndex,
                results, resolveCalls, summary, inv, fs, admissions, collected,
                printed, exitCode, unhandled, crashed>>

total == Len(files)

\* ------------------------------------------------------------------ state
\* The mutable state the callbacks of one task work on, as one record.
Cur == [files |-> files, maxConcurrency |-> maxConcurrency, retries |-> retries,
        index |-> index, running |-> running, progressIndex |-> progressIndex,
        results |-> results, resolveCalls |-> resolveCalls, summary |-> summary,
        inv |-> inv, fs |-> fs, admissions |-> admissions,
        collected |-> collected, printed |-> printed,
        exitCode |-> exitCode, crashed |-> crashed]

PendingInvocation(file) ==
  [file |-> file, progress |-> None, maxAttempts |-> 0, attempt |-> 0,
   phase |-> "pending", oldSize |-> 0, result |-> None, ret |-> None,
   delays |-> <<>>, started |-> 0, retryableFails |-> 0, cause |-> "none",
   status |-> 0, fetched |-> 0, log |-> <<>>]

\* JavaScript truthiness of an optional number: undefined and 0 are falsy.
Truthy(x) == x # Undefined /\ x # 0

\* ---------------------------------------------------------- Transfer Unit
\* compressOnce up to the point the request is sent: stat and read the file
\* inside the promise executor.  A throw there rejects the promise, and the
\* await in compressImage turns that into a rejection of compressImage.
CompressOnce(S, i, readOk) ==
  IF readOk
  THEN [S EXCEPT !.inv[i].phase = "upload",
                 !.inv[i].oldSize = S.fs[S.inv[i].file].size,
                 !.inv[i].started = @ + 1]
  ELSE [S EXCEPT !.inv[i].phase = "rejected",
                 !.inv[i].started = @ + 1]

\* (variant: a rejected upload reports no new size)
UploadFailureNoSize(file, oldSize, status, body) ==
  [file |-> file, oldSize |-> oldSize, newSize |-> 0, success |-> FALSE,
   retryable |-> (status \notin NON_RETRYABLE_STATUS),
   errorMsg |-> Some(IF body = "json" THEN "error, message" ELSE StatusText(status))]

\* The AttemptResult of a rejected upload (compressOnce, res 'end', else branch).
UploadFailure(file, oldSize, status, body) ==
  [file |-> file, oldSize |-> oldSize, newSize |-> oldSize, success |-> FALSE,
   retryable |-> (status \notin NON_RETRYABLE_STATUS),
   errorMsg |-> Some(IF body = "json" THEN "error, message" ELSE StatusText(status))]

\* The AttemptResult of a network error (req 'error' / get 'error').
NetworkFailure(file, oldSize) ==
  [file |-> file, oldSize |-> oldSize, newSize |-> oldSize, success |-> FALSE,
   retryable |-> TRUE, errorMsg |-> Some("socket hang up")]

\* The AttemptResult of downloadCompressed after the write-back.
DownloadSuccess(file, oldSize, newSize) ==
  [file |-> file, oldSize |-> oldSize, newSize |-> newSize, success |-> TRUE,
   retryable |-> FALSE, errorMsg |-> None]

\* ------------------------------------------- Retrying Attempt Controller
\* compressImage from its call to the first await (retries >= 0 or omitted,
\* so the loop body is entered).
CompressImageCall(S, i, file, progress, r, readOk) ==
  LET maxAttempts == (IF Truthy(r) THEN r ELSE 0) + 1
      S1 == [S EXCEPT !.inv[i] = [PendingInvocation(file) EXCEPT
                                    !.progress = progress,
                                    !.maxAttempts = maxAttempts,
                                    !.attempt = 1]]
  IN  CompressOnce(S1, i, readOk)

\* ------------------------------------------------------ Bounded Scheduler
RECURSIVE SumOldSize(_)
SumOldSize(rs) == IF rs = <<>> THEN 0 ELSE SumOldSize(Tail(rs)) + Head(rs).oldSize

RECURSIVE SumNewSize(_)
SumNewSize(rs) == IF rs = <<>> THEN 0 ELSE SumNewSize(Tail(rs)) + Head(rs).newSize

FailCount(rs) == Len(SelectSeq(rs, LAMBDA r : ~r.success))

\* (variant: totalNewSize adds up the old sizes)
SummaryOldTwice(rs) == [totalOldSize |-> SumOldSize(rs), totalNewSize |-> SumOldSize(rs),
                        failCount |-> FailCount(rs), results |-> rs]

Summary(rs) == [totalOldSize |-> SumOldSize(rs), totalNewSize |-> SumNewSize(rs),
                failCount |-> FailCount(rs), results |-> rs]

\* Log the call compressImage(currentFile, apiKey, progress, retries) that
\* next() makes for the file at position S.index.
Admit(S, currentFile, progress) ==
  [S EXCEPT !.admissions = Append(@, [pos |-> S.index, file |-> currentFile,
                                      progress |-> progress])]

\* (variant of next(): the slot test is running <= maxConcurrency)
RECURSIVE NextLoopOneTooMany(_, _)
NextLoopOneTooMany(S, reads) ==
  IF S.running <= S.maxConcurrency /\ S.index < Len(S.files)
  THEN LET currentFile == S.files[S.index + 1]
           S1 == [S EXCEPT !.running = @ + 1, !.index = @ + 1,
                           !.progressIndex = @ + 1]
           progress == [index |-> S1.progressIndex, total |-> Len(S.files)]
           S2 == CompressImageCall(Admit(S1, currentFile, progress), S1.index,
                                   currentFile, Some(progress),
                                   S.retries, reads[S1.index])
       IN  NextLoopOneTooMany(S2, reads)
  ELSE S

\* (variant of next(): progress numbers count the results so far)
RECURSIVE NextLoopNumbersByCompletion(_, _)
NextLoopNumbersByCompletion(S, reads) ==
  IF S.running < S.maxConcurrency /\ S.index < Len(S.files)
  THEN LET currentFile == S.files[S.index + 1]
           S1 == [S EXCEPT !.running = @ + 1, !.index = @ + 1,
                           !.progressIndex = Len(S.results) + 1]
           progress == [index |-> S1.progressIndex, total |-> Len(S.files)]
           S2 == CompressImageCall(Admit(S1, currentFile, progress), S1.index,
                                   currentFile, Some(progress),
                                   S.retries, reads[S1.index])
       IN  NextLoopNumbersByCompletion(S2, reads)
  ELSE S

\* (variant of next(): one slot is always kept free)
RECURSIVE NextLoopKeepsSlotFree(_, _)
NextLoopKeepsSlotFree(S, reads) ==
  IF S.running + 1 < S.maxConcurrency /\ S.index < Len(S.files)
  THEN LET currentFile == S.files[S.index + 1]
           S1 == [S EXCEPT !.running = @ + 1, !.index = @ + 1,
                           !.progressIndex = @ + 1]
           progress == [index |-> S1.progressIndex, total |-> Len(S.files)]
           S2 == CompressImageCall(Admit(S1, currentFile, progress), S1.index,
                                   currentFile, Some(progress),
                                   S.retries, reads[S1.index])
       IN  NextLoopKeepsSlotFree(S2, reads)
  ELSE S

\* next(): admit files while a slot is free; reads[i] tells whether the file
\* at position i can be read when its invocation starts.
RECURSIVE NextLoop(_, _)
NextLoop(S, reads) ==
  IF S.running < S.maxConcurrency /\ S.index < Len(S.files)
  THEN LET currentFile == S.files[S.index + 1]
           S1 == [S EXCEPT !.running = @ + 1, !.index = @ + 1,
                           !.progressIndex = @ + 1]
           progress == [index |-> S1.progressIndex, total |-> Len(S.files)]
           S2 == CompressImageCall(Admit(S1, currentFile, progress), S1.index,
                                   currentFile, Some(progress),
                                   S.retries, reads[S1.index])
       IN  NextLoop(S2, reads)
  ELSE S

\* (variant: the result is filed under the file at its position of arrival)
ThenCallbackByArrival(S, result, reads) ==
  LET S1 == [S EXCEPT !.running = @ - 1,
                      !.results = Append(@, [result EXCEPT
                                               !.file = S.files[Len(S.results) + 1]])]
      S2 == IF Len(S1.results) = Len(S.files)
            THEN [S1 EXCEPT !.resolveCalls = @ + 1,
                            !.summary = IF IsSome(@) THEN @
                                        ELSE Some(Summary(S1.results))]
            ELSE S1
  IN  NextLoop(S2, reads)

\* (variant: completion is tested against the number of files admitted)
ThenCallbackEarly(S, result, reads) ==
  LET S1 == [S EXCEPT !.running = @ - 1, !.results = Append(@, result)]
      S2 == IF Len(S1.results) = S1.index
            THEN [S1 EXCEPT !.resolveCalls = @ + 1,
                            !.summary = IF IsSome(@) THEN @
                                        ELSE Some(Summary(S1.results))]
            ELSE S1
  IN  NextLoop(S2, reads)

\* (variant: a failed file is put back in the queue)
ThenCallbackRequeue(S, result, reads) ==
  LET S1 == [S EXCEPT !.running = @ - 1, !.results = Append(@, result),
                      !.index = IF result.success THEN @ ELSE @ - 1]
      S2 == IF Len(S1.results) = Len(S.files)
            THEN [S1 EXCEPT !.resolveCalls = @ + 1,
                            !.summary = IF IsSome(@) THEN @
                                        ELSE Some(Summary(S1.results))]
            ELSE S1
  IN  NextLoop(S2, reads)

\* (variant: the freed slot is not refilled)
ThenCallbackNoNext(S, result, reads) ==
  LET S1 == [S EXCEPT !.running = @ - 1, !.results = Append(@, result)]
      S2 == IF Len(S1.results) = Len(S.files)
            THEN [S1 EXCEPT !.resolveCalls = @ + 1,
                            !.summary = IF IsSome(@) THEN @
                                        ELSE Some(Summary(S1.results))]
            ELSE S1
  IN  S2

\* (variant: running is not decremented)
ThenCallbackKeepsCount(S, result, reads) ==
  LET S1 == [S EXCEPT !.results = Append(@, result)]
      S2 == IF Len(S1.results) = Len(S.files)
            THEN [S1 EXCEPT !.resolveCalls = @ + 1,
                            !.summary = IF IsSome(@) THEN @
                                        ELSE Some(Summary(S1.results))]
            ELSE S1
  IN  NextLoop(S2, reads)

\* The callback compressBatch attaches to each compressImage promise.
ThenCallback(S, result, reads) ==
  LET S1 == [S EXCEPT !.running = @ - 1, !.results = Append(@, result)]
      S2 == IF Len(S1.results) = Len(S.files)
            THEN [S1 EXCEPT !.resolveCalls = @ + 1,
                            !.summary = IF IsSome(@) THEN @
                                        ELSE Some(Summary(S1.results))]
            ELSE S1
  IN  NextLoop(S2, reads)

\* The entry points that run compressBatch: the function itself and the
\* compress and git commands of the command line.
BatchModes == {"batch", "compress", "git"}
Commands == {"compress", "git"}

\* compressImage returns res: its promise resolves and, in a batch, the
\* callback of compressBatch runs in the same task.
Returned(S, i, res, reads) ==
  LET S1 == [S EXCEPT !.inv[i].phase = "done", !.inv[i].ret = Some(res)]
  IN  IF mode \in BatchModes THEN ThenCallback(S1, res, reads) ELSE S1

\* (variant: the retry message counts attempts from 0)
LogLineZeroBased(I, res) ==
  IF res.success
  THEN [kind |-> "compressed", file |-> I.file, tag |-> I.progress,
        attempt |-> Undefined, maxAttempts |-> Undefined]
  ELSE IF ~res.retryable \/ I.attempt = I.maxAttempts
  THEN [kind |-> "failed", file |-> I.file, tag |-> I.progress,
        attempt |-> Undefined, maxAttempts |-> Undefined]
  ELSE [kind |-> "retrying", file |-> I.file, tag |-> I.progress,
        attempt |-> I.attempt - 1, maxAttempts |-> I.maxAttempts]

\* The line compressImage writes once compressOnce delivered res: console.log
\* of the saving, logError of the failure, or warn of the retry.  Only the
\* retry message has the attempt number and maxAttempts in its text.
LogLine(I, res) ==
  IF res.success
  THEN [kind |-> "compressed", file |-> I.file, tag |-> I.progress,
        attempt |-> Undefined, maxAttempts |-> Undefined]
  ELSE IF ~res.retryable \/ I.attempt = I.maxAttempts
  THEN [kind |-> "failed", file |-> I.file, tag |-> I.progress,
        attempt |-> Undefined, maxAttempts |-> Undefined]
  ELSE [kind |-> "retrying", file |-> I.file, tag |-> I.progress,
        attempt |-> I.attempt, maxAttempts |-> I.maxAttempts]

\* (variant: every retry waits one second)
ResumeFixedDelay(S, i, res, cause, status, reads) ==
  LET I == S.inv[i]
      S1 == [S EXCEPT !.inv[i].result = Some(res),
                      !.inv[i].log = Append(@, LogLine(I, res)),
                      !.inv[i].cause = cause,
                      !.inv[i].status = status,
                      !.inv[i].retryableFails =
                          IF ~res.success /\ res.retryable THEN @ + 1 ELSE @]
  IN  IF res.success THEN Returned(S1, i, res, reads)
      ELSE IF ~res.retryable \/ I.attempt = I.maxAttempts
           THEN Returned(S1, i, res, reads)
           ELSE [S1 EXCEPT !.inv[i].phase = "sleep",
                           !.inv[i].delays = Append(@, 1000)]

\* (variant: the retryable flag is not consulted)
ResumeAnyFailure(S, i, res, cause, status, reads) ==
  LET I == S.inv[i]
      S1 == [S EXCEPT !.inv[i].result = Some(res),
                      !.inv[i].log = Append(@, LogLine(I, res)),
                      !.inv[i].cause = cause,
                      !.inv[i].status = status,
                      !.inv[i].retryableFails =
                          IF ~res.success /\ res.retryable THEN @ + 1 ELSE @]
  IN  IF res.success THEN Returned(S1, i, res, reads)
      ELSE IF I.attempt = I.maxAttempts
           THEN Returned(S1, i, res, reads)
           ELSE [S1 EXCEPT !.inv[i].phase = "sleep",
                           !.inv[i].delays = Append(@, I.attempt * 1000)]

\* (variant: the slot is given up for the time of the backoff)
ResumeFreesSlotInBackoff(S, i, res, cause, status, reads) ==
  LET I == S.inv[i]
      S1 == [S EXCEPT !.inv[i].result = Some(res),
                      !.inv[i].log = Append(@, LogLine(I, res)),
                      !.inv[i].cause = cause,
                      !.inv[i].status = status,
                      !.inv[i].retryableFails =
                          IF ~res.success /\ res.retryable THEN @ + 1 ELSE @]
  IN  IF res.success THEN Returned(S1, i, res, reads)
      ELSE IF ~res.retryable \/ I.attempt = I.maxAttempts
           THEN Returned(S1, i, res, reads)
           ELSE NextLoop([S1 EXCEPT !.inv[i].phase = "sleep",
                                    !.inv[i].delays = Append(@, I.attempt * 1000),
                                    !.running = @ - 1], reads)

\* compressImage after `result = await compressOnce(...)` delivered res.
Resume(S, i, res, cause, status, reads) ==
  LET I == S.inv[i]
      S1 == [S EXCEPT !.inv[i].result = Some(res),
                      !.inv[i].log = Append(@, LogLine(I, res)),
                      !.inv[i].cause = cause,
                      !.inv[i].status = status,
                      !.inv[i].retryableFails =
                          IF ~res.success /\ res.retryable THEN @ + 1 ELSE @]
  IN  IF res.success THEN Returned(S1, i, res, reads)
      ELSE IF ~res.retryable \/ I.attempt = I.maxAttempts
           THEN Returned(S1, i, res, reads)
           ELSE [S1 EXCEPT !.inv[i].phase = "sleep",
                           !.inv[i].delays = Append(@, I.attempt * 1000)]

\* The backoff timer fires: next iteration of the retry loop.
Wake(S, i, reads) ==
  LET I == S.inv[i]
      S1 == [S EXCEPT !.inv[i].attempt = @ + 1]
  IN  IF I.attempt + 1 <= I.maxAttempts
      THEN CompressOnce(S1, i, reads[i])
      ELSE Returned(S1, i, Val(I.result), reads)

\* ---------------------------------------------------------------- inputs
\* Batches are the first n files of the directory, for every n up to the
\* bound, and one list that names the same file twice.
FileLists == {SubSeq(AllFiles, 1, n) : n \in 0..MaxFiles}
               \cup {<<AllFiles[1], AllFiles[1]>>}
ConcurrencyArgs == (1..MaxK) \cup {Undefined}
RetriesArgs == (0..MaxRetries) \cup {Undefined}
BatchRetriesArgs == 0..MaxBatchRetries

\* Which of the files in the positions S can be read when their invocation
\* stats them in this task; the other positions add no choices.
ReadChoices(S) ==
  {r \in [1..MaxFiles -> BOOLEAN] :
     \A j \in 1..MaxFiles : (j \notin S \/ j > total) => r[j]}

\* ---------------------------------------------------------------- actions
\* Store the state a task leaves behind.  An invocation that rejected in this
\* task has no rejection handler in a batch: the runtime either terminates the
\* process or only warns, and it does the same thing every time.
\* The command's handler after `await compressBatch(...)` (handleCompress,
\* handleGit): print the summary, exit 1 when files failed, otherwise return
\* (git: after staging the compressed files, which can fail).
HandlerResume(S, stage) ==
  LET sm == Val(S.summary)
      S1 == [S EXCEPT !.printed = Some([totalOldSize |-> sm.totalOldSize,
                                        totalNewSize |-> sm.totalNewSize,
                                        fileCount |-> Len(S.files),
                                        failCount |-> sm.failCount])]
  IN  IF sm.failCount > 0 THEN [S1 EXCEPT !.exitCode = 1]
      ELSE IF mode' = "git" /\ stage = "failed" THEN [S1 EXCEPT !.exitCode = 1]
      ELSE [S1 EXCEPT !.exitCode = 0]

\* No response, error or timer is outstanding.
Drained(S) ==
  \A i \in DOMAIN S.inv : S.inv[i].phase \in {"pending", "done", "rejected"}

\* What the process of a command does once the task is over: it dies of an
\* uncaught exception, or the handler resumes after the batch resolved, or it
\* ends because nothing is left to wait for.
AfterTask(S, stage) ==
  IF S.exitCode # Undefined THEN S
  ELSE IF S.crashed THEN [S EXCEPT !.exitCode = 1]
  ELSE IF IsSome(S.summary) /\ S.printed = None THEN HandlerResume(S, stage)
  ELSE IF Drained(S) THEN [S EXCEPT !.exitCode = 0]
  ELSE S

\* Outcomes of `git add` to choose from, where the choice matters.
StageOutcomes(S) ==
  IF mode' = "git" /\ IsSome(S.summary) /\ S.printed = None /\ ~S.crashed
     /\ Val(S.summary).failCount = 0
  THEN {"ok", "failed"} ELSE {"ok"}

Commit(S, policy) ==
  LET newReject == mode' \in BatchModes /\
                   \E i \in DOMAIN S.inv :
                       /\ S.inv[i].phase = "rejected"
                       /\ (i \notin DOMAIN inv \/ inv[i].phase # "rejected")
      policy1 == IF newReject /\ unhandled = "unknown" THEN policy ELSE unhandled
      S1 == [S EXCEPT !.crashed = (@ \/ (newReject /\ policy1 = "throw"))]
  IN  \E stage \in StageOutcomes(S1) :
        LET F == IF mode' \in Commands THEN AfterTask(S1, stage) ELSE S1
        IN  /\ files' = F.files
            /\ maxConcurrency' = F.maxConcurrency
            /\ retries' = F.retries
            /\ index' = F.index
            /\ running' = F.running
            /\ progressIndex' = F.progressIndex
            /\ results' = F.results
            /\ resolveCalls' = F.resolveCalls
            /\ summary' = F.summary
            /\ inv' = F.inv
            /\ fs' = F.fs
            /\ admissions' = F.admissions
            /\ collected' = F.collected
            /\ printed' = F.printed
            /\ exitCode' = F.exitCode
            /\ UNCHANGED configVars
            /\ unhandled' = policy1
            /\ crashed' = F.crashed

EngineInit ==
  /\ mode = "idle"
  /\ files = <<>>
  /\ maxConcurrency = 0
  /\ retries = 0
  /\ index = 0
  /\ running = 0
  /\ progressIndex = 0
  /\ results = <<>>
  /\ resolveCalls = 0
  /\ summary = None
  /\ inv = <<>>
  /\ fs = [p \in Paths |-> OrigContent(p)]
  /\ admissions = <<>>
  /\ collected = <<>>
  /\ printed = None
  /\ exitCode = Undefined
  /\ unhandled = "unknown"
  /\ crashed = FALSE

\* The engine is driven directly: no configuration is read.
Init ==
  /\ EngineInit
  /\ envKey = None /\ projectRc = None /\ pkgConfig = None /\ globalRc = None
  /\ config = None

\* The body of compressBatch(f, apiKey, k, r) up to its return: the defaults,
\* the counters and the first call of next().
BatchStart(S, f, k, r, reads) ==
  LET S0 == [S EXCEPT
               !.files = f,
               !.maxConcurrency = IF Truthy(k) THEN k ELSE DefaultConcurrency,
               !.retries = IF r # Undefined THEN r ELSE DefaultRetries,
               !.inv = [i \in 1..Len(f) |-> PendingInvocation(f[i])]]
  IN  NextLoop(S0, reads)

\* compressBatch(f, apiKey, k, r)
CallBatch(f, k, r, reads, policy) ==
  /\ mode = "idle"
  /\ mode' = "batch"
  /\ Commit(BatchStart(Cur, f, k, r, reads), policy)

\* (variant of dedupe: the list is passed on as it is)
DedupeKeepsAll(fl) == fl

\* dedupe(files): the first occurrence of every path, in order.
RECURSIVE Dedupe(_)
Dedupe(fl) ==
  IF fl = <<>> THEN <<>>
  ELSE LET front == Dedupe(SubSeq(fl, 1, Len(fl) - 1))
           last == fl[Len(fl)]
       IN  IF \E k \in DOMAIN front : front[k] = last THEN front
           ELSE Append(front, last)

\* `tinypng compress` / `tinypng git` with the images found, the --dry-run
\* flag and the configured maxConcurrency and retries.
CallCommand(cmd, found, dryRun, k, r, reads, policy) ==
  /\ mode = "idle"
  /\ mode' = cmd
  /\ LET fl == IF cmd = "compress" THEN Dedupe(found) ELSE found
         S0 == [Cur EXCEPT !.collected = found]
     IN  IF fl = <<>> \/ (cmd = "compress" /\ dryRun)
         THEN Commit([S0 EXCEPT !.files = fl, !.exitCode = 0], policy)
         ELSE Commit(BatchStart(S0, fl, k, r, reads), policy)

\* compressImage(p, apiKey, undefined, r) called directly
CallImage(p, r, readOk) ==
  /\ mode = "idle"
  /\ mode' = "image"
  /\ LET S0 == [Cur EXCEPT !.files = <<p>>, !.retries = r,
                           !.inv = <<PendingInvocation(p)>>]
     IN  Commit(CompressImageCall(S0, 1, p, None, r, readOk), "warn")

Live(i) == mode # "idle" /\ ~crashed /\ exitCode = Undefined /\ i \in DOMAIN inv

\* What the 'end' listener of the upload response does (compressOnce).
UploadEndEffect(S, i, status, location, body, reads) ==
  LET I == S.inv[i]
  IN  IF status = 201 /\ location
      THEN [S EXCEPT !.inv[i].phase = "download"]
      ELSE Resume(S, i, UploadFailure(I.file, I.oldSize, status, body),
                  "status", status, reads)

\* The upload response has been received completely (res 'end').
UploadEnd(i, status, location, body, reads, policy) ==
  /\ Live(i) /\ inv[i].phase = "upload"
  /\ mode' = mode
  /\ Commit(UploadEndEffect(Cur, i, status, location, body, reads), policy)

\* What the 'error' listener of a request does (compressOnce,
\* downloadCompressed); cause tells the two requests apart.
RequestErrorEffect(S, i, cause, reads) ==
  LET I == S.inv[i]
  IN  Resume(S, i, NetworkFailure(I.file, I.oldSize), cause, 0, reads)

\* The upload request failed (req 'error').
UploadError(i, reads, policy) ==
  /\ Live(i) /\ inv[i].phase = "upload"
  /\ mode' = mode
  /\ Commit(RequestErrorEffect(Cur, i, "uploaderror", reads), policy)

\* What the 'end' listener of the download response does: write the bytes
\* back, stat the file, resolve.  A throw of writeFileSync inside the event
\* listener is an uncaught exception.
DownloadEndEffect(S, i, dstatus, written, reads) ==
  LET I == S.inv[i]
      bytes == DownloadBody(I.file, I.oldSize, dstatus)
  IN  IF written = "ok"
      THEN LET S1 == [S EXCEPT !.fs[I.file] = bytes, !.inv[i].fetched = dstatus]
               newSize == S1.fs[I.file].size
           IN  Resume(S1, i, DownloadSuccess(I.file, I.oldSize, newSize),
                      "ok", 201, reads)
      ELSE [S EXCEPT !.inv[i].phase = "threw",
                     !.fs[I.file] = IF written = "partial"
                                    THEN Truncated(I.file) ELSE @,
                     !.crashed = TRUE]

\* The download response has been received completely (imgRes 'end').
DownloadEnd(i, dstatus, written, reads, policy) ==
  /\ Live(i) /\ inv[i].phase = "download"
  /\ mode' = mode
  /\ Commit(DownloadEndEffect(Cur, i, dstatus, written, reads), policy)

\* The download request failed (get 'error').
DownloadError(i, reads, policy) ==
  /\ Live(i) /\ inv[i].phase = "download"
  /\ mode' = mode
  /\ Commit(RequestErrorEffect(Cur, i, "downloaderror", reads), policy)

\* The backoff timer of invocation i fires.
SleepDone(i, reads, policy) ==
  /\ Live(i) /\ inv[i].phase = "sleep"
  /\ mode' = mode
  /\ Commit(Wake(Cur, i, reads), policy)

Policies == {"warn", "throw"}
PolicyChoices == IF unhandled = "unknown" THEN Policies ELSE {unhandled}
WriteOutcomes == {"ok", "denied", "partial"}
Slots == 1..MaxFiles
NotAdmitted == (index + 1)..MaxFiles

AllReadable == [j \in 1..MaxFiles |-> TRUE]

\* The events of one invocation: the upload responses are drawn from sts and
\* bodies, the download responses from dsts, and file system calls can fail
\* only when canThrow.
Events(sts, bodies, dsts, canThrow) ==
  \E i \in Slots :
    \E reads \in IF canThrow THEN ReadChoices({i} \cup NotAdmitted) ELSE {AllReadable},
       policy \in PolicyChoices :
      \/ \E status \in sts, location \in BOOLEAN, body \in bodies :
           /\ (status # 201 => location)
           /\ reads[i]
           /\ UploadEnd(i, status, location, body, reads, policy)
      \/ reads[i] /\ UploadError(i, reads, policy)
      \/ \E dstatus \in dsts, written \in IF canThrow THEN WriteOutcomes ELSE {"ok"} :
           reads[i] /\ DownloadEnd(i, dstatus, written, reads, policy)
      \/ reads[i] /\ DownloadError(i, reads, policy)
      \/ SleepDone(i, reads, policy)

\* compressBatch is called once; canThrow as for Events.
Batch(canThrow) ==
  \E f \in FileLists, k \in ConcurrencyArgs, r \in BatchRetriesArgs,
     reads \in IF canThrow THEN [1..MaxFiles -> BOOLEAN] ELSE {AllReadable},
     policy \in Policies :
    /\ \A j \in 1..MaxFiles : j > Len(f) => reads[j]
    /\ CallBatch(f, k, r, reads, policy)

\* Batches.
Next ==
  \/ Batch(TRUE)
  \/ Events(BatchStatuses, {"text"}, BatchDownloadStatuses, TRUE)

Spec == Init /\ [][Next]_vars

\* What normalizeConfig can make of maxConcurrency.
ConfigConcurrency == (1..MaxK) \cup {DefaultConcurrency}

\* A command is run once.
Command(canThrow) ==
  \E cmd \in Commands, found \in FileLists, dryRun \in BOOLEAN,
     k \in ConfigConcurrency, r \in BatchRetriesArgs,
     reads \in IF canThrow THEN [1..MaxFiles -> BOOLEAN] ELSE {AllReadable},
     policy \in Policies :
    /\ \A j \in 1..MaxFiles : j > Len(found) => reads[j]
    /\ (cmd = "git" => (~dryRun /\ \A a, b \in DOMAIN found :
                                      found[a] = found[b] => a = b))
    /\ CallCommand(cmd, found, dryRun, k, r, reads, policy)

\* The command line.
NextCli ==
  \/ Command(TRUE)
  \/ Events(BatchStatuses, {"text"}, BatchDownloadStatuses, TRUE)

SpecCli == Init /\ [][NextCli]_vars

\* Every way into a batch: compressBatch called by a program, or a command.
NextEntry ==
  \/ Batch(TRUE)
  \/ Command(TRUE)
  \/ Events(BatchStatuses, {"text"}, BatchDownloadStatuses, TRUE)

SpecEntry == Init /\ [][NextEntry]_vars

\* Single images: compressImage is called once, directly.
NextImage ==
  \/ \E p \in {AllFiles[1]}, r \in RetriesArgs, readOk \in BOOLEAN : CallImage(p, r, readOk)
  \/ Events(Statuses, Bodies, DownloadStatuses, TRUE)

SpecImage == Init /\ [][NextImage]_vars

\* Batches in which no file system call fails and every event that can happen
\* eventually does.
NextHealthy ==
  \/ Batch(FALSE)
  \/ Events(BatchStatuses, {"text"}, BatchDownloadStatuses, FALSE)

SpecHealthy == Init /\ [][NextHealthy]_vars /\ WF_vars(NextHealthy)

\* ---------------------------------------------------------- configuration
\* A configuration object as parsed from JSON: apiKey is None when the key is
\* missing, the numbers are Undefined when missing, the flags None when
\* missing.
ConfigObject(apiKey, mc, r, stage, ignore) ==
  [apiKey |-> apiKey, maxConcurrency |-> mc, retries |-> r,
   autoStage |-> stage, respectGitignore |-> ignore]

\* JavaScript truthiness of an optional string: undefined and "" are falsy.
TruthyKey(k) == IsSome(k) /\ Val(k) # ""

\* (variant of normalizeConfig: retries || 3)
NormalizeConfigRetriesOrDefault(raw, source) ==
  [apiKey |-> Val(raw.apiKey),
   maxConcurrency |-> IF Truthy(raw.maxConcurrency) THEN raw.maxConcurrency
                      ELSE DefaultConcurrency,
   retries |-> IF Truthy(raw.retries) THEN raw.retries ELSE DefaultRetries,
   autoStage |-> (raw.autoStage # Some(FALSE)),
   respectGitignore |-> (raw.respectGitignore # Some(FALSE)),
   source |-> source]

\* normalizeConfig(raw, source)
NormalizeConfig(raw, source) ==
  [apiKey |-> Val(raw.apiKey),
   maxConcurrency |-> IF Truthy(raw.maxConcurrency) THEN raw.maxConcurrency
                      ELSE DefaultConcurrency,
   retries |-> IF raw.retries # Undefined THEN raw.retries ELSE DefaultRetries,
   autoStage |-> (raw.autoStage # Some(FALSE)),
   respectGitignore |-> (raw.respectGitignore # Some(FALSE)),
   source |-> source]

EmptyObject == ConfigObject(None, Undefined, Undefined, None, None)

\* The file configuration getConfig settles on: the first of project rc,
\* package.json and global rc that has a truthy apiKey, with the name of its
\* source; None when there is none.
FileConfig(project, package, global) ==
  IF IsSome(project) /\ TruthyKey(Val(project).apiKey)
  THEN Some([raw |-> Val(project), source |-> "project (.tinypngrc)"])
  ELSE IF IsSome(package) /\ TruthyKey(Val(package).apiKey)
  THEN Some([raw |-> Val(package), source |-> "project (package.json)"])
  ELSE IF IsSome(global) /\ TruthyKey(Val(global).apiKey)
  THEN Some([raw |-> Val(global), source |-> "global (~/.tinypngrc)"])
  ELSE None

\* (variant: the global rc is consulted before package.json)
GetConfigResultGlobalFirst(env, project, package, global) ==
  LET fileConfig == FileConfig(project, global, package)
  IN  IF TruthyKey(env)
      THEN LET base == IF IsSome(fileConfig) THEN Val(fileConfig).raw ELSE EmptyObject
               merged == [base EXCEPT !.apiKey = env]
           IN  [thrown |-> FALSE,
                value |-> Some(NormalizeConfig(merged, "env (TINYPNG_API_KEY)"))]
      ELSE IF IsSome(fileConfig)
      THEN [thrown |-> FALSE,
            value |-> Some(NormalizeConfig(Val(fileConfig).raw,
                           IF Val(fileConfig).source = "project (package.json)"
                           THEN "global (~/.tinypngrc)"
                           ELSE IF Val(fileConfig).source = "global (~/.tinypngrc)"
                           THEN "project (package.json)"
                           ELSE Val(fileConfig).source))]
      ELSE [thrown |-> TRUE, value |-> None]

\* getConfig(): the value returned, or thrown = TRUE for the error.
GetConfigResult(env, project, package, global) ==
  LET fileConfig == FileConfig(project, package, global)
  IN  IF TruthyKey(env)
      THEN LET base == IF IsSome(fileConfig) THEN Val(fileConfig).raw ELSE EmptyObject
               merged == [base EXCEPT !.apiKey = env]
           IN  [thrown |-> FALSE,
                value |-> Some(NormalizeConfig(merged, "env (TINYPNG_API_KEY)"))]
      ELSE IF IsSome(fileConfig)
      THEN [thrown |-> FALSE,
            value |-> Some(NormalizeConfig(Val(fileConfig).raw, Val(fileConfig).source))]
      ELSE [thrown |-> TRUE, value |-> None]

\* What a configuration file of the source with key k can hold.
FileConfigs(k) ==
  {None,
   Some(EmptyObject),
   Some(ConfigObject(Some(""), Undefined, Undefined, None, None)),
   Some(ConfigObject(Some(k), Undefined, Undefined, None, None)),
   Some(ConfigObject(None, 2, 0, Some(FALSE), None)),
   Some(ConfigObject(Some(k), 2, 0, None, Some(FALSE))),
   Some(ConfigObject(Some(k), 0, 1, Some(TRUE), Some(TRUE)))}

EnvKeys == {None, Some(""), Some("key-env")}

InitConfig ==
  /\ EngineInit
  /\ envKey \in EnvKeys
  /\ projectRc \in FileConfigs("key-project")
  /\ pkgConfig \in FileConfigs("key-package")
  /\ globalRc \in FileConfigs("key-global")
  /\ config = None

\* getConfig() is called.
GetConfig ==
  /\ config = None
  /\ config' = Some(GetConfigResult(envKey, projectRc, pkgConfig, globalRc))
  /\ UNCHANGED <<envKey, projectRc, pkgConfig, globalRc>>
  /\ UNCHANGED engineVars

NextConfig == GetConfig

SpecConfig == InitConfig /\ [][NextConfig]_vars

\* ===================================================================== claims
Resolved == IsSome(summary)
Admitted == {i \in DOMAIN inv : inv[i].phase # "pending"}
Delivered == {i \in DOMAIN inv : inv[i].phase = "done"}
InFlight == Admitted \ Delivered
Injective(f) == \A a, b \in DOMAIN f : f[a] = f[b] => a = b

\* C1: the results of the resolved summary hold exactly one Outcome per input
\* file, and each Outcome is the value returned by the invocation of the file
\* it names: some one-to-one assignment of result positions to file positions
\* matches every result with that invocation's return value and file.
C1_OneOutcomePerFile ==
  (mode = "batch" /\ Resolved) =>
    LET rs == Val(summary).results
    IN  /\ Len(rs) = Len(files)
        /\ \E p \in [1..Len(rs) -> 1..Len(files)] :
             /\ Injective(p)
             /\ \A k \in 1..Len(rs) :
                  /\ inv[p[k]].phase = "done"
                  /\ rs[k] = Val(inv[p[k]].ret)
                  /\ rs[k].file = files[p[k]]
                  /\ rs[k].oldSize = inv[p[k]].oldSize

\* Two different files completed in the reverse of their input order.
C1_Witness ==
  /\ mode = "batch" /\ Resolved /\ Len(files) = 2 /\ files[1] # files[2]
  /\ Val(summary).results[1].file = files[2]
  /\ Val(summary).results[2].file = files[1]

\* C2: the number of admitted invocations that have not delivered their result
\* never exceeds the concurrency limit.
C2_ConcurrencyBound ==
  mode = "batch" => /\ Cardinality(InFlight) <= maxConcurrency
                    /\ running <= maxConcurrency

\* More files than slots: one invocation has delivered, and its slot has been
\* taken by the next file, so that the limit is reached again.
C2_Witness ==
  /\ mode = "batch" /\ maxConcurrency < Len(files)
  /\ Len(results) > 0 /\ Cardinality(InFlight) = maxConcurrency

\* C3: resolve is called at most once, and only when every input file has
\* delivered its Outcome.
C3_ResolvesOnceWhenAllDone ==
  mode = "batch" =>
    /\ resolveCalls <= 1
    /\ (resolveCalls > 0 \/ Resolved) =>
         /\ Delivered = 1..Len(files)
         /\ Len(results) = Len(files)
         /\ InFlight = {}

\* A batch of two files has resolved.
C3_Witness == mode = "batch" /\ resolveCalls = 1 /\ Len(files) = 2 /\ Resolved

RECURSIVE SumRet(_, _)
SumRet(n, field) ==
  IF n = 0 THEN 0 ELSE SumRet(n - 1, field) + Val(inv[n].ret)[field]

\* C10: the totals of the resolved summary are the sums of oldSize and of
\* newSize and the number of failures over the Outcomes the files' invocations
\* returned, taken in input order, whatever order they completed in.
C10_SummaryTotals ==
  (mode = "batch" /\ Resolved) =>
    LET sm == Val(summary)
        n == Len(files)
    IN  /\ \A i \in 1..n : IsSome(inv[i].ret)
        /\ sm.totalOldSize = SumRet(n, "oldSize")
        /\ sm.totalNewSize = SumRet(n, "newSize")
        /\ sm.failCount = Cardinality({i \in 1..n : ~Val(inv[i].ret).success})

\* Old sizes 1000 and 2000, the first file compressed to 500, the second
\* failed, and the second completed first: 3000, 2500, 1.
C10_Witness ==
  /\ mode = "batch" /\ Resolved /\ Len(files) = 2
  /\ Val(summary).results[1].file = files[2]
  /\ Val(inv[1].ret) = DownloadSuccess(files[1], 1000, 500)
  /\ ~Val(inv[2].ret).success /\ Val(inv[2].ret).oldSize = 2000
  /\ Val(summary).totalOldSize = 3000
  /\ Val(summary).totalNewSize = 2500
  /\ Val(summary).failCount = 1

\* C4: if every attempt eventually concludes, the batch promise is eventually
\* resolved, for every concurrency limit and every number of files.
C4_NeverHangs == (mode = "batch") ~> Resolved

\* C5: a batch with no files is resolved as soon as compressBatch has been
\* called, with totals 0, 0, 0 and no results.
C5_EmptyBatchResolves ==
  (mode = "batch" /\ files = <<>>) =>
    /\ Resolved
    /\ Val(summary) = [totalOldSize |-> 0, totalNewSize |-> 0, failCount |-> 0,
                       results |-> <<>>]

\* The retries argument, for the calls that pass one.
RetriesGiven == retries # Undefined

\* The delays before retries 1..n, in milliseconds: n-th retry after n seconds.
LinearBackoff(n) == [k \in 1..n |-> k * 1000]

\* C6: an invocation all of whose attempts failed with a retryable error has
\* made exactly retries + 1 attempts when it returns, and has waited 1, 2, ...,
\* retries seconds, once before each retry; with retries = 0 there is never
\* more than one attempt and never a wait.
C6_RetryBound ==
  RetriesGiven =>
    \A i \in DOMAIN inv :
      LET I == inv[i]
      IN  /\ (I.phase = "done" /\ I.retryableFails = I.started) =>
               /\ I.started = retries + 1
               /\ I.delays = LinearBackoff(retries)
          /\ I.retryableFails = I.started =>
               /\ I.started <= retries + 1
               /\ I.delays = LinearBackoff(IF I.phase = "sleep" THEN I.started
                                           ELSE I.started - 1)
          /\ retries = 0 => (I.started <= 1 /\ I.delays = <<>>)

\* Three attempts for retries = 2, all failed with a retryable error, with
\* waits of one and two seconds.
C6_Witness ==
  /\ RetriesGiven /\ retries = 2
  /\ \E i \in DOMAIN inv :
       /\ inv[i].phase = "done" /\ inv[i].started = 3
       /\ inv[i].retryableFails = 3 /\ inv[i].delays = <<1000, 2000>>

\* The last attempt of invocation I failed with a retryable error and was not
\* the last one allowed.
MayRetry(I) ==
  /\ IsSome(I.result) /\ ~Val(I.result).success /\ Val(I.result).retryable
  /\ I.started < retries + 1

C7_State ==
  RetriesGiven =>
    \A i \in DOMAIN inv :
      LET I == inv[i]
      IN  /\ I.phase = "done" =>
               /\ IsSome(I.ret) /\ I.ret = I.result
               /\ ~MayRetry(I)
               /\ I.attempt = I.started
          /\ I.phase = "sleep" => MayRetry(I)
          /\ (I.phase \in {"upload", "download"} /\ I.started > 1) =>
               I.retryableFails = I.started - 1

C7_Step ==
  (RetriesGiven /\ mode # "idle") =>
    \A i \in DOMAIN inv :
      /\ inv'[i].started > inv[i].started /\ inv[i].started > 0 =>
           /\ inv'[i].started = inv[i].started + 1
           /\ inv[i].phase = "sleep" /\ MayRetry(inv[i])
      /\ (inv[i].phase = "sleep" /\ inv'[i] # inv[i]) =>
           inv'[i].started = inv[i].started + 1
      /\ inv[i].phase = "done" => inv'[i] = inv[i]

\* C7: attempt n+1 starts if and only if attempt n failed with a retryable
\* error and n < retries + 1: a returned invocation returned the result of its
\* last attempt, which was a success, a non-retryable failure or attempt
\* retries + 1; an invocation waiting to retry has a retryable failure behind
\* it and attempts left, and its next step is the next attempt; no attempt
\* starts otherwise.
C7_RetryIffRetryable == []C7_State /\ [][C7_Step]_vars

\* A non-retryable failure on the first attempt ended an invocation that had
\* two retries left.
C7_Witness ==
  /\ RetriesGiven /\ retries = 2
  /\ \E i \in DOMAIN inv :
       /\ inv[i].phase = "done" /\ inv[i].started = 1
       /\ ~Val(inv[i].ret).success /\ ~Val(inv[i].ret).retryable

\* C8: a failed attempt is non-retryable exactly when the upload was answered
\* with status 401 or 415; a successful attempt is never retryable.
C8_Classification ==
  \A i \in DOMAIN inv :
    IsSome(inv[i].result) =>
      LET r == Val(inv[i].result)
      IN  /\ r.success => ~r.retryable
          /\ r.success <=> inv[i].cause = "ok"
          /\ ~r.success =>
               (~r.retryable <=> (inv[i].cause = "status" /\ inv[i].status \in {401, 415}))

\* An upload answered with 415 was classified non-retryable.
C8_Witness ==
  \E i \in DOMAIN inv :
    /\ IsSome(inv[i].result) /\ inv[i].cause = "status" /\ inv[i].status = 415
    /\ ~Val(inv[i].result).retryable

\* C9: no invocation rejects or throws: every failure of an attempt ends in an
\* Outcome, and the process survives it.
C9_FailuresAreOutcomes ==
  /\ ~crashed
  /\ \A i \in DOMAIN inv : inv[i].phase \notin {"rejected", "threw"}

\* C11: an attempt yields success = true only if the upload was answered with
\* 201 and a location, the download was answered with the replacement bytes,
\* and the file holds those bytes; every other attempt yields success = false.
C11_SuccessOnlyIfReplaced ==
  \A i \in DOMAIN inv :
    IsSome(inv[i].result) =>
      LET r == Val(inv[i].result)
      IN  r.success <=>
            /\ inv[i].cause = "ok" /\ inv[i].status = 201 /\ inv[i].fetched = 200
            /\ fs[inv[i].file] = Shrunk(inv[i].file, r.oldSize)

\* Invocation i concluded an attempt in this step, with the given success flag.
Concluded(i, ok) ==
  /\ inv'[i].started = inv[i].started /\ inv'[i].result # inv[i].result
  /\ IsSome(inv'[i].result) /\ Val(inv'[i].result).success = ok

C12_State ==
  \A i \in DOMAIN inv :
    (inv[i].phase = "done" /\ ~Val(inv[i].ret).success) =>
      fs[inv[i].file] = OrigContent(inv[i].file)

C12_Step ==
  mode # "idle" =>
    /\ fs' # fs =>
         \E i \in DOMAIN inv :
           /\ Concluded(i, TRUE)
           /\ fs' = [fs EXCEPT ![inv[i].file] =
                        DownloadBody(inv[i].file, inv[i].oldSize, inv'[i].fetched)]
    /\ \A i \in DOMAIN inv : Concluded(i, FALSE) => fs' = fs

\* C12: the content of the file changes only in an attempt that returns
\* success = true, which overwrites it with the fetched bytes; an attempt that
\* returns success = false leaves it as it was, so that after an Outcome with
\* success = false the file holds what it held before the invocation.
C12_OnlySuccessWrites == []C12_State /\ [][C12_Step]_vars

\* An Outcome carries an error message exactly when it is a failure, and a
\* failure reports the old size as the new size.
WellFormed(r) ==
  /\ IsSome(r.errorMsg) <=> ~r.success
  /\ ~r.success => r.newSize = r.oldSize

\* C13: every Outcome returned by compressImage or listed in the results of a
\* batch has an error message if and only if success is false, and has
\* newSize = oldSize when success is false.
C13_OutcomeShape ==
  /\ \A i \in DOMAIN inv : IsSome(inv[i].ret) => WellFormed(Val(inv[i].ret))
  /\ \A k \in DOMAIN results : WellFormed(results[k])
  /\ Resolved => \A k \in DOMAIN Val(summary).results :
                   WellFormed(Val(summary).results[k])

\* The results of a batch hold a success and a failure.
C13_Witness ==
  /\ mode = "batch" /\ Resolved /\ Len(results) = 2
  /\ results[1].success /\ results[1].newSize < results[1].oldSize
  /\ ~results[2].success /\ results[2].errorMsg = Some("HTTP 500")

\* No position of the input list is admitted twice.
AdmittedOnce ==
  \A a, b \in DOMAIN admissions :
    admissions[a].pos = admissions[b].pos => a = b

\* No two invocations in flight work on the same file.
NoSharedFile ==
  \A i, j \in InFlight : inv[i].file = inv[j].file => i = j

\* An attempt of an invocation starts only after the previous one concluded.
C14_Step ==
  mode = "batch" =>
    \A i \in DOMAIN inv :
      (inv[i].started > 0 /\ inv'[i].started # inv[i].started) =>
        /\ inv'[i].started = inv[i].started + 1
        /\ inv[i].phase = "sleep"
        /\ IsSome(inv[i].result) /\ inv[i].retryableFails = inv[i].started

\* C14 as claimed: no item is scheduled twice, no two invocations for the
\* same file are in flight at the same time, and attempt n+1 of an invocation
\* starts only after attempt n concluded.
C14_NoConcurrentSameFile ==
  [](mode = "batch" => (AdmittedOnce /\ NoSharedFile)) /\ [][C14_Step]_vars

Distinct(f) == \A a, b \in DOMAIN f : f[a] = f[b] => a = b

\* C14 amended: no position of the input list is scheduled twice and attempt
\* n+1 of an invocation starts only after attempt n concluded; when the input
\* list names no file twice, no two invocations for the same file are in
\* flight at the same time.
C14_NoConcurrentSameFileIfDistinct ==
  /\ [](mode = "batch" => (AdmittedOnce /\ (Distinct(files) => NoSharedFile)))
  /\ [][C14_Step]_vars

\* Two different files are in flight together, one of them in a retry.
C14_Witness ==
  /\ mode = "batch" /\ Distinct(files) /\ Cardinality(InFlight) = 2
  /\ \E i \in InFlight : inv[i].started = 2

\* C15: files are admitted in input order, and the file at position k is given
\* progress number k of total = number of files when it is admitted, whatever
\* has completed by then.
C15_AdmissionOrder ==
  mode = "batch" =>
    /\ Len(admissions) = index
    /\ \A k \in DOMAIN admissions :
         admissions[k] = [pos |-> k, file |-> files[k],
                          progress |-> [index |-> k, total |-> Len(files)]]
    /\ \A i \in Admitted :
         inv[i].progress = Some([index |-> i, total |-> Len(files)])
    /\ Admitted = 1..index

\* The second file was admitted after the first had delivered its Outcome.
C15_Witness ==
  /\ mode = "batch" /\ maxConcurrency = 1 /\ Len(files) = 2
  /\ Len(results) >= 1 /\ Len(admissions) = 2
  /\ inv[2].progress = Some([index |-> 2, total |-> 2])

\* C20: between tasks, a file still waits for admission only while exactly
\* maxConcurrency invocations are in flight; with fewer in flight every file
\* has been admitted.
C20_WorkConserving ==
  mode = "batch" =>
    /\ index < Len(files) =>
         (running = maxConcurrency /\ Cardinality(InFlight) = maxConcurrency)
    /\ Cardinality(InFlight) < maxConcurrency => Admitted = 1..Len(files)

\* One slot, two files: the first is waiting to retry, the second waits for
\* the slot.
C20_Witness ==
  /\ mode = "batch" /\ index < Len(files) /\ running = maxConcurrency
  /\ \E i \in InFlight : inv[i].phase = "sleep"

\* C17: compressImage called without a retries argument retries three times:
\* it allows four attempts, and makes them when every attempt fails with a
\* retryable error.
C17_DefaultRetries ==
  (mode = "image" /\ retries = Undefined) =>
    \A i \in DOMAIN inv :
      /\ inv[i].maxAttempts = DefaultRetries + 1
      /\ (inv[i].phase = "done" /\ inv[i].retryableFails = inv[i].started) =>
           inv[i].started = DefaultRetries + 1

\* The sources of an API key in the documented order of priority, each with
\* the key it defines (None when it defines none) and its reported name.
KeyOf(file) == IF IsSome(file) THEN Val(file).apiKey ELSE None
KeySources ==
  << [key |-> envKey, name |-> "env (TINYPNG_API_KEY)"],
     [key |-> KeyOf(projectRc), name |-> "project (.tinypngrc)"],
     [key |-> KeyOf(pkgConfig), name |-> "project (package.json)"],
     [key |-> KeyOf(globalRc), name |-> "global (~/.tinypngrc)"] >>
Defines(src) == src.key # None /\ src.key # Some("")

\* C18: getConfig returns the API key of the first source, in the order
\* environment, project rc, package.json, global rc, that defines a non-empty
\* key, reports that source, and throws when no source defines one.
C18_KeyPriority ==
  IsSome(config) =>
    LET out == Val(config)
        defining == {n \in 1..4 : Defines(KeySources[n])}
    IN  IF defining = {} THEN out.thrown
        ELSE LET w == CHOOSE n \in defining : \A m \in defining : n <= m
             IN  /\ ~out.thrown
                 /\ Val(out.value).apiKey = Val(KeySources[w].key)
                 /\ Val(out.value).source = KeySources[w].name

\* No key in the environment or the project rc, one in package.json and one in
\* the global rc: package.json wins.
C18_Witness ==
  /\ IsSome(config) /\ ~Val(config).thrown
  /\ ~Defines(KeySources[1]) /\ ~Defines(KeySources[2])
  /\ Defines(KeySources[3]) /\ Defines(KeySources[4])
  /\ Val(Val(config).value).apiKey = "key-package"

\* The command got as far as running a batch.
BatchHasRun == mode \in Commands /\ admissions # <<>>

\* C19: once a command has run a non-empty batch, it ends with the summary
\* printed and with a non-zero exit status exactly when files failed; no
\* failure of a file surfaces as an exception.
C19_ExitReflectsFailures ==
  BatchHasRun =>
    /\ ~crashed
    /\ exitCode # Undefined =>
         /\ IsSome(printed)
         /\ (exitCode # 0 <=> Val(printed).failCount > 0)

\* The limits compressBatch can work with, and those that are no smaller than
\* the number n of files.
Limits == {IF Truthy(k) THEN k ELSE DefaultConcurrency : k \in ConcurrencyArgs}
LimitsFrom(n) == {k \in Limits : k >= n}

\* S as it would be had the batch been called with the limit k.
WithLimit(S, k) == [S EXCEPT !.maxConcurrency = k]
\* S and T differ in the limit at most.
SameButLimit(S, T) == WithLimit(S, 0) = WithLimit(T, 0)

\* Calling compressBatch with a list of n >= 1 files gives the same state
\* whatever the limit k >= n, whichever files can be read.
SameStart ==
  \A f \in FileLists, r \in BatchRetriesArgs, reads \in [1..MaxFiles -> BOOLEAN] :
    \A k1, k2 \in LimitsFrom(Len(f)) :
      Len(f) >= 1 => SameButLimit(BatchStart(Cur, f, k1, r, reads),
                                  BatchStart(Cur, f, k2, r, reads))

\* In the state S every event of every invocation has the same effect as in
\* the state T.
SameEvents(S, T) ==
  \A i \in DOMAIN inv, reads \in [1..MaxFiles -> BOOLEAN] :
    /\ inv[i].phase = "upload" =>
         /\ \A status \in Statuses, location \in BOOLEAN, body \in Bodies :
              SameButLimit(UploadEndEffect(S, i, status, location, body, reads),
                           UploadEndEffect(T, i, status, location, body, reads))
         /\ SameButLimit(RequestErrorEffect(S, i, "uploaderror", reads),
                         RequestErrorEffect(T, i, "uploaderror", reads))
    /\ inv[i].phase = "download" =>
         /\ \A dstatus \in DownloadStatuses, written \in WriteOutcomes :
              SameButLimit(DownloadEndEffect(S, i, dstatus, written, reads),
                           DownloadEndEffect(T, i, dstatus, written, reads))
         /\ SameButLimit(RequestErrorEffect(S, i, "downloaderror", reads),
                         RequestErrorEffect(T, i, "downloaderror", reads))
    /\ inv[i].phase = "sleep" =>
         SameButLimit(Wake(S, i, reads), Wake(T, i, reads))

\* C16: for n >= 1 files, a batch with a limit K > n behaves as the batch with
\* K = n: the call admits all n files in input order and leaves the same
\* state, and from every state reached every event has the same effect under
\* every limit >= n, so the interleavings and the Outcomes are the same.
C16_LimitBeyondCount ==
  /\ mode = "idle" => SameStart
  /\ (mode = "batch" /\ Len(files) >= 1 /\ maxConcurrency >= Len(files)) =>
       /\ index = Len(files)
       /\ Len(admissions) = Len(files)
       /\ \A j \in DOMAIN admissions :
            admissions[j].pos = j /\ admissions[j].file = files[j]
       /\ \A k \in LimitsFrom(Len(files)) : SameEvents(Cur, WithLimit(Cur, k))

\* Two files under the default limit of 5, one of them delivered and the other
\* still on its way.
C16_Witness ==
  /\ mode = "batch" /\ Len(files) = 2 /\ maxConcurrency > Len(files)
  /\ Len(results) = 1
  /\ \E i \in DOMAIN inv : inv[i].phase \in {"upload", "download", "sleep"}

\* The attempts of invocation I that are over, and those that ended with an
\* AttemptResult (an attempt that threw delivered none).
AttemptsOver(I) ==
  IF I.phase \in {"upload", "download"} THEN I.attempt - 1 ELSE I.attempt
AttemptsWithResult(I) ==
  IF I.phase \in {"rejected", "threw"} THEN I.attempt - 1 ELSE AttemptsOver(I)

\* The kinds of the lines are right: a last line for the success or the
\* failure ends the invocation, every other line announces a retry.
LogKinds(I) ==
  \A a \in DOMAIN I.log :
    IF a = Len(I.log) /\ I.phase = "done"
    THEN I.log[a].kind = (IF Val(I.ret).success THEN "compressed" ELSE "failed")
    ELSE I.log[a].kind = "retrying" /\ a < I.maxAttempts

\* C21 as stated: one line per attempt, each with the 1-based attempt number
\* and the maximum attempt count.
C21_NumberedLinePerAttempt ==
  \A i \in DOMAIN inv :
    LET I == inv[i]
    IN  /\ Len(I.log) = AttemptsOver(I)
        /\ LogKinds(I)
        /\ \A a \in DOMAIN I.log :
             I.log[a].attempt = a /\ I.log[a].maxAttempts = I.maxAttempts

\* C21 (amended): compressImage writes exactly one line for every attempt that
\* ended with an AttemptResult (success, final failure, or retry, the last
\* only when another attempt follows) and none for an attempt that threw; the
\* retry line carries the 1-based attempt number and the maximum attempt
\* count, the success and failure lines carry neither.
C21_LinePerAttempt ==
  \A i \in DOMAIN inv :
    LET I == inv[i]
    IN  /\ Len(I.log) = AttemptsWithResult(I)
        /\ LogKinds(I)
        /\ \A a \in DOMAIN I.log :
             IF I.log[a].kind = "retrying"
             THEN I.log[a].attempt = a /\ I.log[a].maxAttempts = I.maxAttempts
             ELSE I.log[a].attempt = Undefined /\ I.log[a].maxAttempts = Undefined

\* A retry line followed by the line of the final result.
C21_Witness ==
  \E i \in DOMAIN inv :
    /\ inv[i].phase = "done" /\ Len(inv[i].log) = 2
    /\ inv[i].log[1].kind = "retrying" /\ inv[i].log[1].attempt = 1

\* The positions of the path p in the list f, the admissions of p and the
\* Outcomes for p.
Positions(f, p) == {j \in DOMAIN f : f[j] = p}
AdmissionsOf(p) == {a \in DOMAIN admissions : admissions[a].file = p}
OutcomesOf(p) == {j \in DOMAIN results : results[j].file = p}

\* C22 as stated: whatever list a batch is given, a file named twice is
\* processed once and gets one Outcome.
C22_BatchDedupes ==
  mode \in BatchModes =>
    \A p \in Paths :
      /\ Cardinality(AdmissionsOf(p)) <= 1
      /\ Cardinality(OutcomesOf(p)) <= 1

\* C22 (amended): the compress command applies dedupe to everything it found
\* before it schedules: every path found is in the batch exactly once, is
\* admitted at most once and gets at most one Outcome, and exactly one when
\* the batch resolves.  (compressBatch itself keeps a repeated path.)
C22_CommandDedupes ==
  mode = "compress" =>
    \A p \in Paths :
      /\ Cardinality(Positions(files, p)) = (IF Positions(collected, p) # {} THEN 1 ELSE 0)
      /\ Cardinality(AdmissionsOf(p)) <= 1
      /\ Cardinality(OutcomesOf(p)) <= 1
      /\ (Resolved /\ Positions(collected, p) # {}) =>
             Cardinality(OutcomesOf(p)) = 1

\* The command found the same image twice and the batch resolved with its one
\* Outcome.
C22_Witness ==
  /\ mode = "compress" /\ Resolved
  /\ \E p \in Paths : Cardinality(Positions(collected, p)) = 2
                      /\ Cardinality(OutcomesOf(p)) = 1

\* C23: between callbacks the Outcomes collected and the invocations in flight
\* add up to the files admitted, which are no more than the files given; the
\* counters running, index and progressIndex say how many invocations are in
\* flight and how many files were admitted; when the batch has resolved
\* nothing is in flight and every file was admitted.
C23_Accounting ==
  mode = "batch" =>
    /\ Len(results) + running = index
    /\ index <= Len(files)
    /\ progressIndex = index
    /\ index = Cardinality(Admitted)
    /\ index = Len(admissions)
    /\ running = Cardinality(InFlight)
    /\ Resolved => (running = 0 /\ index = Len(files))

\* Two files through one slot: the batch resolved after the second file was
\* admitted on the first one's completion.
C23_Witness ==
  /\ mode = "batch" /\ Resolved
  /\ Len(files) = 2 /\ maxConcurrency = 1 /\ Len(results) = 2

\* The invocations in a network call, and those sleeping in backoff.
InNetworkCall == {i \in DOMAIN inv : inv[i].phase \in {"upload", "download"}}
InBackoff == {i \in DOMAIN inv : inv[i].phase = "sleep"}

\* The invocations attempting or waiting to retry hold slots, and are never
\* more than K.
C24_State ==
  mode = "batch" =>
    /\ Cardinality(InNetworkCall \cup InBackoff) <= running
    /\ Cardinality(InNetworkCall \cup InBackoff) <= maxConcurrency

\* An invocation that starts or sits out a backoff wait keeps its slot, and
\* while K invocations are in a network call or in backoff a file is admitted
\* only by a step in which one of them returns.
C24_Step ==
  mode = "batch" =>
    /\ \A i \in DOMAIN inv :
         (i \in InNetworkCall /\ inv'[i].phase = "sleep") =>
            (running' = running /\ index' = index)
    /\ \A i \in InBackoff :
         inv'[i].phase \in {"upload", "rejected"} =>
            (running' = running /\ index' = index)
    /\ (Cardinality(InNetworkCall \cup InBackoff) = maxConcurrency /\ index' > index) =>
         \E i \in InNetworkCall \cup InBackoff : inv'[i].phase = "done"

\* C24: a compressImage invocation keeps its concurrency slot for its whole
\* lifetime, backoff waits included; no file is admitted while K invocations
\* are in a network call or in backoff, so the files being attempted or
\* waiting to retry are never more than K.
C24_SlotHeldInBackoff == [](C24_State) /\ [][C24_Step]_vars

\* One slot, held by an invocation in backoff, while the second file waits.
C24_Witness ==
  /\ mode = "batch" /\ maxConcurrency = 1 /\ Len(files) = 2
  /\ 1 \in InBackoff /\ inv[2].phase = "pending" /\ running = 1

\* The configuration files in the order of their priority, and those among
\* them that define a non-empty apiKey.
FileSources == <<projectRc, pkgConfig, globalRc>>
KeyedFiles == {n \in 1..3 : Defines(KeySources[n + 1])}

\* The settings getConfig is to go by: those of the first file with a key,
\* none when no file has one.
SettingsSource ==
  IF KeyedFiles = {} THEN EmptyObject
  ELSE Val(FileSources[CHOOSE n \in KeyedFiles : \A m \in KeyedFiles : n <= m])

\* C25: the settings other than the key come from the one file of highest
\* priority that defines an apiKey, also when the key comes from the
\* environment; files without a key count for nothing; a missing (or zero)
\* maxConcurrency gives 5, a missing retries gives 3, a retries of 0 stays 0.
C25_SettingsFromKeyedFile ==
  (IsSome(config) /\ ~Val(config).thrown) =>
    LET out == Val(Val(config).value)
        raw == SettingsSource
    IN  /\ out.maxConcurrency = (IF raw.maxConcurrency \in {Undefined, 0} THEN 5
                                 ELSE raw.maxConcurrency)
        /\ out.retries = (IF raw.retries = Undefined THEN 3 ELSE raw.retries)
        /\ out.autoStage = (raw.autoStage # Some(FALSE))
        /\ out.respectGitignore = (raw.respectGitignore # Some(FALSE))

\* The key comes from the environment, the project rc has settings but no key
\* and package.json has a key: the settings are those of package.json, its
\* retries of 0 included.
C25_Witness ==
  /\ IsSome(config) /\ ~Val(config).thrown
  /\ Defines(KeySources[1])
  /\ IsSome(projectRc) /\ ~Defines(KeySources[2]) /\ Val(projectRc).maxConcurrency = 2
  /\ Val(projectRc).autoStage = Some(FALSE)
  /\ Defines(KeySources[3]) /\ Val(pkgConfig).retries = 0
  /\ Val(Val(config).value).retries = 0
  /\ Val(Val(config).value).autoStage
  /\ Val(Val(config).value).source = "env (TINYPNG_API_KEY)"

====
